---- MODULE Spec2Model ----
(***************************************************************************)
(* Orders API (src/api/server.js): an Express application with five routes *)
(* over one Sequelize model, Order, stored in SQLite.  Every request runs  *)
(* through express.json(), the simulateChaos middleware, the Joi validator *)
(* of the write routes and then the route handler.  Node runs each handler *)
(* without interruption between two awaits, so a request is modelled as a  *)
(* sequence of atomic steps: its dispatch up to the first store call, and  *)
(* then one step per store call together with the code that follows it up  *)
(* to the next await or to the response.                                   *)
(***************************************************************************)
EXTENDS Integers, Sequences, FiniteSets, TLC

VARIABLES
    store,      \* the rows of table Orders
    nextId,     \* the AUTOINCREMENT counter of Orders.id
    reqs,       \* per connection: its request, where the handler stands, its response
    sent201,    \* per id: how many 201 responses have carried it
    sent204     \* per id: how many 204 responses have answered a DELETE of it

vars == <<store, nextId, reqs, sent201, sent204>>

-----------------------------------------------------------------------------
(* Bounds of the model *)

\* connections that may have a request in flight at the same time
NumClients == 2

\* rows ever inserted (the AUTOINCREMENT counter is not advanced beyond it)
MaxOrders == 2

Clients == 1..NumClients

\* ids a request may name: every id that can be issued, and one that never is
Ids == 1..(MaxOrders + 1)

-----------------------------------------------------------------------------
(* JSON values.  A value carries its JSON type; strings are sequences of   *)
(* characters, so that length and substring tests are computed.            *)

Str(s) == [t |-> "string", s |-> s, n |-> 0, e |-> <<>>]
Num(n) == [t |-> "number", s |-> <<>>, n |-> n, e |-> <<>>]
Arr(e) == [t |-> "array", s |-> <<>>, n |-> 0, e |-> e]
Null == [t |-> "null", s |-> <<>>, n |-> 0, e |-> <<>>]

\* elements of an items array: a JSON object, or something else
Obj(name) == [t |-> "object", v |-> name]
Prim(name) == [t |-> "number", v |-> name]

Janet == <<"J", "a", "n", "e", "t">>
Bob == <<"B", "o", "b">>
An == <<"a", "n">>
Pending == <<"p", "e", "n", "d", "i", "n", "g">>
Shipped == <<"s", "h", "i", "p", "p", "e", "d">>
Delivered == <<"d", "e", "l", "i", "v", "e", "r", "e", "d">>
Cancelled == <<"c", "a", "n", "c", "e", "l", "l", "e", "d">>
Bogus == <<"b", "o", "g", "u", "s">>

Digits == <<"0", "1", "2", "3", "4", "5", "6", "7", "8", "9">>

DigitValue(c) == (CHOOSE i \in 1..Len(Digits) : Digits[i] = c) - 1

IsDigit(c) == \E i \in 1..Len(Digits) : Digits[i] = c

\* Joi.number() and SQLite's REAL affinity both read a string of digits as a number
IsNumeric(s) == Len(s) > 0 /\ \A i \in 1..Len(s) : IsDigit(s[i])

RECURSIVE ParseNumber(_)
ParseNumber(s) ==
    IF s = <<>> THEN 0
    ELSE 10 * ParseNumber(SubSeq(s, 1, Len(s) - 1)) + DigitValue(s[Len(s)])

-----------------------------------------------------------------------------
(* Validation schemas (Joi).  A payload is a function from the keys it     *)
(* holds to their values; an absent key is outside its domain.             *)

OrderStatuses == {Pending, Shipped, Delivered, Cancelled}

SchemaKeys == <<"customerName", "totalAmount", "status", "items">>

\* (mutant) the create schema with customerName .min(1)
createOrderSchemaMin1 ==
    [required |-> {"customerName", "totalAmount"}, nameMin |-> 1,
     statuses |-> OrderStatuses, minKeys |-> 0]

createOrderSchema ==
    [required |-> {"customerName", "totalAmount"}, nameMin |-> 3,
     statuses |-> OrderStatuses, minKeys |-> 0]

\* (mutant) the update schema without .min(1)
updateOrderSchemaNoMin ==
    [required |-> {}, nameMin |-> 3, statuses |-> OrderStatuses, minKeys |-> 0]

updateOrderSchema ==
    [required |-> {}, nameMin |-> 3, statuses |-> OrderStatuses, minKeys |-> 1]

NoError == ""

Quoted(k) == "\"" \o k \o "\""

\* the number a totalAmount value stands for once Joi or SQLite has converted it
NumberOf(v) == IF v.t = "number" THEN v.n ELSE ParseNumber(v.s)

IsNumber(v) == v.t = "number" \/ (v.t = "string" /\ IsNumeric(v.s))

\* Joi.array().items(Joi.object()): the first element that is no object, 0 if none
FirstNonObject(e) ==
    IF \E i \in 1..Len(e) : e[i].t # "object"
    THEN CHOOSE i \in 1..Len(e) :
            e[i].t # "object" /\ \A j \in 1..(i - 1) : e[j].t = "object"
    ELSE 0

\* the rule of one schema key applied to a payload: its message, or NoError
CheckKey(schema, k, body) ==
    IF k \notin DOMAIN body
    THEN IF k \in schema.required THEN Quoted(k) \o " is required" ELSE NoError
    ELSE LET v == body[k] IN
         CASE k = "customerName" ->
                IF v.t # "string" THEN Quoted(k) \o " must be a string"
                ELSE IF v.s = <<>> THEN Quoted(k) \o " is not allowed to be empty"
                ELSE IF Len(v.s) < schema.nameMin
                     THEN Quoted(k) \o " length must be at least 3 characters long"
                ELSE NoError
           [] k = "totalAmount" ->
                IF ~IsNumber(v) THEN Quoted(k) \o " must be a number"
                ELSE IF NumberOf(v) <= 0 THEN Quoted(k) \o " must be a positive number"
                ELSE NoError
           [] k = "status" ->
                IF v.t = "string" /\ v.s \in schema.statuses THEN NoError
                ELSE Quoted(k)
                       \o " must be one of [pending, shipped, delivered, cancelled]"
           [] k = "items" ->
                IF v.t # "array" THEN Quoted(k) \o " must be an array"
                ELSE IF FirstNonObject(v.e) # 0
                     THEN "\"items[" \o Digits[FirstNonObject(v.e)]
                            \o "]\" must be of type object"
                ELSE NoError

\* abortEarly: the keys are checked in the order the schema declares them
RECURSIVE FirstKeyError(_, _, _)
FirstKeyError(schema, body, i) ==
    IF i > Len(SchemaKeys) THEN NoError
    ELSE IF CheckKey(schema, SchemaKeys[i], body) # NoError
         THEN CheckKey(schema, SchemaKeys[i], body)
    ELSE FirstKeyError(schema, body, i + 1)

\* (mutant) a schema declared with .unknown(): other keys are let through
UnknownKeysAllowed(body) == {}

\* the keys of a payload that the schema does not declare
UnknownKeys(body) == DOMAIN body \ {SchemaKeys[i] : i \in 1..Len(SchemaKeys)}

\* schema.validate(req.body).error: the declared keys, then keys the schema does
\* not know, then the rule on the number of keys
Validate(schema, body) ==
    IF FirstKeyError(schema, body, 1) # NoError THEN FirstKeyError(schema, body, 1)
    ELSE IF UnknownKeys(body) # {}
         THEN Quoted(CHOOSE k \in UnknownKeys(body) : TRUE) \o " is not allowed"
    ELSE IF Cardinality(DOMAIN body) < schema.minKeys
         THEN "\"value\" must have at least 1 key"
    ELSE NoError

-----------------------------------------------------------------------------
(* The Order model and the store calls the handlers make (Sequelize over   *)
(* SQLite).                                                                *)

NoOrder ==
    [id |-> 0, customerName |-> Null, totalAmount |-> Null, status |-> Null,
     items |-> Null]

OrderFields == {"customerName", "totalAmount", "status", "items"}

StoreIds(st) == {o.id : o \in st}

\* what a column holds once a value is written to it: totalAmount is FLOAT, and
\* SQLite's REAL affinity turns a numeric string into the number
ColumnValue(k, v) ==
    IF k = "totalAmount" /\ v.t = "string" /\ IsNumeric(v.s)
    THEN Num(ParseNumber(v.s))
    ELSE v

\* Order.build(values): the supplied attributes (id is one of the model's, and a
\* supplied id goes into the INSERT), status defaulting to 'pending', an attribute
\* without a default left unset
BuildOrder(id, values) ==
    [id |-> IF "id" \in DOMAIN values /\ values["id"].t = "number"
            THEN values["id"].n ELSE id,
     customerName |-> IF "customerName" \in DOMAIN values
                      THEN values["customerName"] ELSE Null,
     totalAmount |-> IF "totalAmount" \in DOMAIN values
                     THEN values["totalAmount"] ELSE Null,
     status |-> IF "status" \in DOMAIN values THEN values["status"] ELSE Str(Pending),
     items |-> IF "items" \in DOMAIN values THEN values["items"] ELSE Null]

\* the row an instance is written as
RowOf(o) ==
    [id |-> o.id,
     customerName |-> ColumnValue("customerName", o.customerName),
     totalAmount |-> ColumnValue("totalAmount", o.totalAmount),
     status |-> ColumnValue("status", o.status),
     items |-> ColumnValue("items", o.items)]

\* (mutant) an id column without AUTOINCREMENT: one more than the largest id stored
AssignedIdReuse(st, next) ==
    IF st = {} THEN 1
    ELSE (CHOOSE i \in StoreIds(st) : \A j \in StoreIds(st) : j <= i) + 1

\* INSERT: the id is the AUTOINCREMENT counter's next value, never a used one
AssignedId(st, next) == next

\* (mutant) a lookup that drops the WHERE clause
FindByPkAnyRow(st, id) == IF st # {} THEN CHOOSE o \in st : TRUE ELSE NoOrder

\* Order.findByPk(id): the row with that primary key, or null
FindByPk(st, id) ==
    IF id \in StoreIds(st) THEN CHOOSE o \in st : o.id = id ELSE NoOrder

\* instance.set(values): the supplied attributes over the instance's own
SetValues(o, values) ==
    [o EXCEPT !.customerName = IF "customerName" \in DOMAIN values
                               THEN values["customerName"] ELSE @,
              !.totalAmount = IF "totalAmount" \in DOMAIN values
                              THEN values["totalAmount"] ELSE @,
              !.status = IF "status" \in DOMAIN values THEN values["status"] ELSE @,
              !.items = IF "items" \in DOMAIN values THEN values["items"] ELSE @]

\* instance.changed(): the supplied attributes that differ from the instance's
Changed(o, values) ==
    {k \in DOMAIN values \cap OrderFields : values[k] # o[k]}

\* (mutant) a save that writes every attribute of the instance
SavedFieldsAll(values) == OrderFields

\* instance.update(values) saves with options.fields set to the attributes of the
\* payload
SavedFields(values) == DOMAIN values \cap OrderFields

\* the values the UPDATE carries: the instance's, after set(), for those fields
SavedValues(o, values) == [k \in SavedFields(values) |-> SetValues(o, values)[k]]

\* (mutant) an update that writes a whole new record from the payload
UpdateRowsReplace(st, id, values) ==
    {IF o.id = id THEN RowOf(BuildOrder(id, values)) ELSE o : o \in st}

\* UPDATE Orders SET <the supplied attributes> WHERE id = <the instance's id>:
\* only the supplied columns are written, and a missing row is no error
UpdateRows(st, id, values) ==
    {IF o.id = id THEN RowOf(SetValues(o, values)) ELSE o : o \in st}

\* DELETE FROM Orders WHERE id = <the instance's id>: a missing row is no error
DestroyRows(st, id) == {o \in st : o.id # id}

Uppers == <<"A", "B", "E", "J", "N", "O", "T">>
Lowers == <<"a", "b", "e", "j", "n", "o", "t">>

\* SQLite's LIKE ignores the case of ASCII letters
Lower(c) ==
    IF \E i \in 1..Len(Uppers) : Uppers[i] = c
    THEN Lowers[CHOOSE i \in 1..Len(Uppers) : Uppers[i] = c]
    ELSE c

\* text LIKE pat: % matches any run of characters, _ any one character
RECURSIVE Like(_, _)
Like(pat, text) ==
    IF pat = <<>> THEN text = <<>>
    ELSE IF Head(pat) = "%"
         THEN Like(Tail(pat), text) \/ (text # <<>> /\ Like(pat, Tail(text)))
    ELSE /\ text # <<>>
         /\ (Head(pat) = "_" \/ Lower(Head(pat)) = Lower(Head(text)))
         /\ Like(Tail(pat), Tail(text))

\* the where clause of GET /orders: a parameter that is absent or the empty
\* string adds no condition; customerName is wrapped in % and handed to LIKE
BuildWhere(query) ==
    [k \in {q \in DOMAIN query : query[q] # <<>>} |->
        IF k = "customerName" THEN <<"%">> \o query[k] \o <<"%">> ELSE query[k]]

\* Order.findAll({ where })
FindAll(st, where) ==
    {o \in st :
        /\ "status" \in DOMAIN where => o.status.s = where["status"]
        /\ "customerName" \in DOMAIN where
              => Like(where["customerName"], o.customerName.s)}

-----------------------------------------------------------------------------
(* Requests and responses *)

NoQuery == <<>>

\* the payloads requests carry (the first is what load-tests/ordersProcessor.js
\* generates; the others exercise the rules of the schemas)
OrderA ==
    [customerName |-> Str(Janet), totalAmount |-> Num(50),
     items |-> Arr(<<Obj("Hammer")>>)]
OrderB ==
    [customerName |-> Str(Bob), totalAmount |-> Str(<<"7">>), status |-> Str(Shipped)]
SetShipped == [status |-> Str(Shipped)]
Reprice == [customerName |-> Str(Bob), totalAmount |-> Num(7)]
NoFields == <<>>
ZeroAmount == [customerName |-> Str(Janet), totalAmount |-> Num(0)]
ShortName == [customerName |-> Str(An), totalAmount |-> Num(7)]
BadStatus == [status |-> Str(Bogus)]
BadItems == [items |-> Arr(<<Obj("Hammer"), Prim("1")>>)]
WithId ==
    [id |-> Num(MaxOrders + 1), customerName |-> Str(Janet), totalAmount |-> Num(50)]
WithUpdatedAt == [status |-> Str(Shipped), updatedAt |-> Str(<<"0">>)]

Bodies ==
    {OrderA, OrderB, SetShipped, Reprice, NoFields, ZeroAmount, ShortName,
     BadStatus, BadItems, WithId, WithUpdatedAt}

Queries ==
    {NoQuery, [status |-> Shipped], [customerName |-> An],
     [status |-> Shipped, customerName |-> An], [customerName |-> <<"_">>],
     [customerName |-> <<"A", "N">>], [customerName |-> <<>>], [status |-> <<>>]}

\* a request to one of the five routes; malformed marks a body express.json()
\* cannot parse
Request(route, id, body, query, malformed) ==
    [route |-> route, id |-> id, body |-> body, query |-> query,
     malformed |-> malformed]

NoReq == Request("", 0, <<>>, NoQuery, FALSE)

Requests ==
    {Request("create", 0, b, NoQuery, FALSE) : b \in Bodies}
    \cup {Request("list", 0, <<>>, q, FALSE) : q \in Queries}
    \cup {Request("get", i, <<>>, NoQuery, FALSE) : i \in Ids}
    \cup {Request("update", i, b, NoQuery, FALSE) : i \in Ids, b \in Bodies}
    \cup {Request("delete", i, <<>>, NoQuery, FALSE) : i \in Ids}
    \cup {Request("create", 0, <<>>, NoQuery, TRUE)}

\* the requests concurrent connections send: they all concern the first Order
ConcurrentRequests ==
    {r \in Requests : /\ r.id \in {0, 1}
                      /\ r.body \in {NoFields, OrderA, SetShipped, Reprice}
                      /\ r.query = NoQuery
                      /\ ~r.malformed}

\* the requests of connections that create an Order and update the first one
UpdateRequests ==
    {r \in ConcurrentRequests :
        \/ r.route = "create" /\ r.body = OrderA
        \/ r.route = "update" /\ r.body \in {SetShipped, Reprice, OrderA}}

Method(req) ==
    CASE req.route = "create" -> "POST"
      [] req.route \in {"list", "get"} -> "GET"
      [] req.route = "update" -> "PATCH"
      [] req.route = "delete" -> "DELETE"

Path(req) ==
    IF req.route \in {"create", "list"} THEN "/orders"
    ELSE "/orders/" \o Digits[req.id + 1]

\* a log event: its level and message and, of its metadata, the simulated tag
LogEvent(level, message, simulated) ==
    [level |-> level, message |-> message, simulated |-> simulated, path |-> "",
     method |-> ""]

\* (mutant) the event of simulateChaos without its simulated tag
ChaosLogEventUntagged(message, req) ==
    [level |-> "error", message |-> message, simulated |-> FALSE,
     path |-> Path(req), method |-> Method(req)]

\* the event simulateChaos logs: logger.error with the failure's message, tagged
\* simulated, with the request's path and method
ChaosLogEvent(message, req) ==
    [level |-> "error", message |-> message, simulated |-> TRUE,
     path |-> Path(req), method |-> Method(req)]

\* a connection: the request on it, the store call its handler awaits (pc), the
\* instance the handler holds, the middleware and handler that ran, the store calls
\* issued, the log events written, and the response once it is sent: its status
\* and its body (kind "error" is { error: <message> }); effects lists, in the order
\* the code executes them, the logger calls and the response
IdleSlot ==
    [pc |-> "idle", req |-> NoReq, inst |-> NoOrder, stages |-> <<>>,
     calls |-> <<>>, log |-> <<>>, effects |-> <<>>, status |-> 0, kind |-> "",
     error |-> "", order |-> NoOrder, orders |-> {}]

-----------------------------------------------------------------------------
(* Middleware.  Each returns whether it ended the request and, if so, with *)
(* what response and log events.                                           *)

Outcome(sent, status, kind, error, log) ==
    [sent |-> sent, status |-> status, kind |-> kind, error |-> error, log |-> log]

PassOn == Outcome(FALSE, 0, "", "", <<>>)

\* express.json(): a body that does not parse goes to Express's error handler,
\* which answers 400 with its own (non-JSON) error page
expressJson(req) ==
    IF req.malformed THEN Outcome(TRUE, 400, "html", "", <<>>) ELSE PassOn

\* (mutant) the canned failures with two messages exchanged
ChaosErrorsMixed ==
    <<[status |-> 503,
       message |-> "Gateway Timeout: Upstream service did not respond"],
      [status |-> 504,
       message |-> "Service Unavailable: Database connection pool exhausted"],
      [status |-> 500,
       message |-> "Internal Server Error: Transaction deadlock detected"]>>

ChaosErrors ==
    <<[status |-> 503,
       message |-> "Service Unavailable: Database connection pool exhausted"],
      [status |-> 504,
       message |-> "Gateway Timeout: Upstream service did not respond"],
      [status |-> 500,
       message |-> "Internal Server Error: Transaction deadlock detected"]>>

\* hit is Math.random() < 0.1, pick is Math.floor(Math.random() * errors.length)
simulateChaos(req, hit, pick) ==
    IF hit
    THEN Outcome(TRUE, ChaosErrors[pick + 1].status, "error",
                 ChaosErrors[pick + 1].message,
                 <<ChaosLogEvent(ChaosErrors[pick + 1].message, req)>>)
    ELSE PassOn

validateBody(schema, req) ==
    LET error == Validate(schema, req.body)
    IN IF error # NoError
       THEN Outcome(TRUE, 400, "error", error,
                    <<LogEvent("warn", "Invalid request body: " \o error, FALSE)>>)
       ELSE PassOn

\* the validator mounted on a route, if any
RouteValidator(req) ==
    CASE req.route = "create" -> validateBody(createOrderSchema, req)
      [] req.route = "update" -> validateBody(updateOrderSchema, req)
      [] OTHER -> PassOn

\* the order in which app.use() and the route definitions mount the middleware
Pipeline == <<"json", "chaos", "validate", "handler">>

\* what the middleware named stage does with a request
RunStage(stage, req, hit, pick) ==
    CASE stage = "json" -> expressJson(req)
      [] stage = "chaos" -> simulateChaos(req, hit, pick)
      [] stage = "validate" -> RouteValidator(req)
      [] OTHER -> PassOn

\* the position in the pipeline of the first stage that ends the request
\* (the handler's, when none before it does)
RECURSIVE StopsAt(_, _, _, _)
StopsAt(i, req, hit, pick) ==
    IF i >= Len(Pipeline) \/ RunStage(Pipeline[i], req, hit, pick).sent THEN i
    ELSE StopsAt(i + 1, req, hit, pick)

\* the first store call each handler awaits
FirstCall(req) ==
    CASE req.route = "create" -> "create"
      [] req.route = "list" -> "findAll"
      [] OTHER -> "findByPk"

\* the message of the error a failing store call throws
StoreFailure == "SQLITE_BUSY: database is locked"

\* (mutant) a catch block that answers with the caught error's message
CatchBodyLeaks(errMessage) == errMessage

\* the catch blocks: the body never carries the caught error's message
CatchBody(errMessage) == "Internal Server Error"

CatchLog(req) ==
    CASE req.route = "create" -> "Error creating order"
      [] req.route = "list" -> "Error retrieving orders"
      [] req.route = "get" -> "Error retrieving order"
      [] req.route = "update" -> "Error updating order"
      [] req.route = "delete" -> "Error deleting order"

NotFoundLog(req) ==
    CASE req.route = "get" -> "Order not found"
      [] req.route = "update" -> "Order not found for update"
      [] req.route = "delete" -> "Order not found for deletion"

-----------------------------------------------------------------------------
(* The state machine *)

Init ==
    /\ store = {}
    /\ nextId = 1
    /\ reqs = [c \in Clients |-> IdleSlot]
    /\ sent201 = [i \in Ids |-> 0]
    /\ sent204 = [i \in Ids |-> 0]

\* every path that answers calls the logger, if it does, and then res.json() or
\* res.send()
Effects(log) == [i \in 1..Len(log) |-> "log"] \o <<"respond">>

Mounted(stage, req) == stage # "validate" \/ req.route \in {"create", "update"}

\* the stages that ran for a request that went as far as position i
StagesRun(i, req) == SelectSeq(SubSeq(Pipeline, 1, i), LAMBDA st : Mounted(st, req))

\* res.status(...).json(...) / .send(), after the log event written before it
Reply(c, status, kind, error, order, orders, log) ==
    reqs' = [reqs EXCEPT ![c].pc = "responded", ![c].inst = NoOrder,
                         ![c].status = status, ![c].kind = kind,
                         ![c].error = error, ![c].order = order,
                         ![c].orders = orders, ![c].log = @ \o log,
                         ![c].effects = @ \o Effects(log)]

\* the catch block of every handler
ReplyStoreError(c) ==
    Reply(c, 500, "error", CatchBody(StoreFailure), NoOrder, {},
          <<LogEvent("error", CatchLog(reqs[c].req), FALSE)>>)

\* (mutant) a not-found branch that logs and does not respond
LogNotFoundOnly(c) ==
    reqs' = [reqs EXCEPT ![c].pc = "returned", ![c].inst = NoOrder,
                         ![c].log = Append(@, LogEvent("warn", NotFoundLog(reqs[c].req),
                                                       FALSE)),
                         ![c].effects = Append(@, "log")]

ReplyNotFound(c) ==
    Reply(c, 404, "error", "Order not found", NoOrder, {},
          <<LogEvent("warn", NotFoundLog(reqs[c].req), FALSE)>>)

\* the handler awaits its next store call
Await(c, call, inst) ==
    reqs' = [reqs EXCEPT ![c].pc = call, ![c].inst = inst,
                         ![c].calls = Append(@, call)]

\* A request arrives and runs through the middleware; unless one of them ends
\* it, its handler starts and awaits its first store call.
Dispatch(c, requests) ==
    /\ reqs[c].pc = "idle"
    /\ \E req \in requests, hit \in BOOLEAN, pick \in 0..(Len(ChaosErrors) - 1) :
        LET i == StopsAt(1, req, hit, pick)
            out == RunStage(Pipeline[i], req, hit, pick)
        IN \* (the pick is only drawn on a hit)
           /\ ~hit => pick = 0
           /\ IF out.sent
              THEN reqs' = [reqs EXCEPT ![c] =
                              [IdleSlot EXCEPT !.pc = "responded", !.req = req,
                                               !.stages = StagesRun(i, req),
                                               !.status = out.status,
                                               !.kind = out.kind,
                                               !.error = out.error,
                                               !.log = out.log,
                                               !.effects = Effects(out.log)]]
              ELSE /\ req.route = "create"
                        => nextId
                             + Cardinality({d \in Clients : reqs[d].pc = "create"})
                             <= MaxOrders
                   /\ reqs' = [reqs EXCEPT ![c] =
                                 [IdleSlot EXCEPT !.pc = FirstCall(req), !.req = req,
                                                  !.stages = StagesRun(i, req),
                                                  !.calls = <<FirstCall(req)>>]]
    /\ UNCHANGED <<store, nextId, sent201, sent204>>

\* POST /orders: Order.create(req.body) completes
CreateOrder(c) ==
    /\ reqs[c].pc = "create"
    /\ \E fails \in BOOLEAN :
        IF fails
        THEN ReplyStoreError(c) /\ UNCHANGED <<store, nextId, sent201>>
        ELSE LET order == BuildOrder(AssignedId(store, nextId), reqs[c].req.body)
             IN /\ store' = store \cup {RowOf(order)}
                /\ nextId' = nextId + 1
                /\ sent201' = [sent201 EXCEPT ![order.id] = @ + 1]
                /\ Reply(c, 201, "order", "", order, {},
                         <<LogEvent("info", "Order created", FALSE)>>)
    /\ UNCHANGED sent204

\* GET /orders: Order.findAll({ where }) completes
GetAllOrders(c) ==
    /\ reqs[c].pc = "findAll"
    /\ \E fails \in BOOLEAN :
        IF fails THEN ReplyStoreError(c)
        ELSE Reply(c, 200, "orders", "", NoOrder,
                   FindAll(store, BuildWhere(reqs[c].req.query)),
                   <<LogEvent("info", "Orders retrieved", FALSE)>>)
    /\ UNCHANGED <<store, nextId, sent201, sent204>>

\* GET /orders/:id: Order.findByPk completes
GetOrderById(c) ==
    /\ reqs[c].pc = "findByPk"
    /\ reqs[c].req.route = "get"
    /\ \E fails \in BOOLEAN :
        LET order == FindByPk(store, reqs[c].req.id)
        IN IF fails THEN ReplyStoreError(c)
           ELSE IF order = NoOrder THEN ReplyNotFound(c)
           ELSE Reply(c, 200, "order", "", order, {},
                      <<LogEvent("info", "Order retrieved", FALSE)>>)
    /\ UNCHANGED <<store, nextId, sent201, sent204>>

\* PATCH /orders/:id: Order.findByPk completes.  order.update(req.body) sets the
\* payload on the instance and saves it; save() issues no query, and the handler
\* goes on to respond, when no attribute of the instance changed.
UpdateFind(c) ==
    /\ reqs[c].pc = "findByPk"
    /\ reqs[c].req.route = "update"
    /\ \E fails \in BOOLEAN :
        LET order == FindByPk(store, reqs[c].req.id)
        IN IF fails THEN ReplyStoreError(c)
           ELSE IF order = NoOrder THEN ReplyNotFound(c)
           ELSE IF Changed(order, reqs[c].req.body) = {}
                THEN Reply(c, 200, "order", "", SetValues(order, reqs[c].req.body),
                           {}, <<LogEvent("info", "Order updated", FALSE)>>)
           ELSE Await(c, "update", order)
    /\ UNCHANGED <<store, nextId, sent201, sent204>>

\* PATCH /orders/:id: the UPDATE of order.update(req.body) completes
UpdateSave(c) ==
    /\ reqs[c].pc = "update"
    /\ \E fails \in BOOLEAN :
        IF fails THEN ReplyStoreError(c) /\ UNCHANGED store
        ELSE /\ store' = UpdateRows(store, reqs[c].inst.id,
                                    SavedValues(reqs[c].inst, reqs[c].req.body))
             /\ Reply(c, 200, "order", "", SetValues(reqs[c].inst, reqs[c].req.body),
                      {}, <<LogEvent("info", "Order updated", FALSE)>>)
    /\ UNCHANGED <<nextId, sent201, sent204>>

\* DELETE /orders/:id: Order.findByPk completes
DeleteFind(c) ==
    /\ reqs[c].pc = "findByPk"
    /\ reqs[c].req.route = "delete"
    /\ \E fails \in BOOLEAN :
        LET order == FindByPk(store, reqs[c].req.id)
        IN IF fails THEN ReplyStoreError(c)
           ELSE IF order = NoOrder THEN ReplyNotFound(c)
           ELSE Await(c, "destroy", order)
    /\ UNCHANGED <<store, nextId, sent201, sent204>>

\* DELETE /orders/:id: order.destroy() completes
DeleteDestroy(c) ==
    /\ reqs[c].pc = "destroy"
    /\ \E fails \in BOOLEAN :
        IF fails THEN ReplyStoreError(c) /\ UNCHANGED <<store, sent204>>
        ELSE /\ store' = DestroyRows(store, reqs[c].inst.id)
             /\ sent204' = [sent204 EXCEPT ![reqs[c].req.id] = @ + 1]
             /\ Reply(c, 204, "empty", "", NoOrder, {},
                      <<LogEvent("info", "Order deleted", FALSE)>>)
    /\ UNCHANGED <<nextId, sent201>>

\* The client reads the response; its connection is free for its next request.
Receive(c) ==
    /\ reqs[c].pc = "responded"
    /\ reqs' = [reqs EXCEPT ![c] = IdleSlot]
    /\ UNCHANGED <<store, nextId, sent201, sent204>>

\* Requests on every connection, interleaved at the handlers' awaits.
Next ==
    \E c \in Clients :
        \/ Dispatch(c, ConcurrentRequests)
        \/ CreateOrder(c)
        \/ GetAllOrders(c)
        \/ GetOrderById(c)
        \/ UpdateFind(c)
        \/ UpdateSave(c)
        \/ DeleteFind(c)
        \/ DeleteDestroy(c)
        \/ Receive(c)

Spec == Init /\ [][Next]_vars

\* One connection, each request answered before the next is sent, with every
\* payload and query.
SeqNext ==
    \/ Dispatch(1, Requests)
    \/ CreateOrder(1)
    \/ GetAllOrders(1)
    \/ GetOrderById(1)
    \/ UpdateFind(1)
    \/ UpdateSave(1)
    \/ DeleteFind(1)
    \/ DeleteDestroy(1)
    \/ Receive(1)

SeqSpec == Init /\ [][SeqNext]_vars

\* POST and PATCH requests on every connection, interleaved at the handlers'
\* awaits.
UpdateNext ==
    \E c \in Clients :
        \/ Dispatch(c, UpdateRequests)
        \/ CreateOrder(c)
        \/ UpdateFind(c)
        \/ UpdateSave(c)
        \/ Receive(c)

UpdateSpec == Init /\ [][UpdateNext]_vars

\* Every store call a handler awaits eventually returns or fails, and the handler
\* then runs on: each step that completes a store call is taken if it stays
\* enabled.
StoreCallsComplete ==
    \A c \in Clients :
        /\ WF_vars(CreateOrder(c))
        /\ WF_vars(GetAllOrders(c))
        /\ WF_vars(GetOrderById(c))
        /\ WF_vars(UpdateFind(c))
        /\ WF_vars(UpdateSave(c))
        /\ WF_vars(DeleteFind(c))
        /\ WF_vars(DeleteDestroy(c))

LiveSpec == Init /\ [][Next]_vars /\ StoreCallsComplete

\* one connection, with every payload and query, its store calls completing
SeqLiveSpec == Init /\ [][SeqNext]_vars /\ StoreCallsComplete

-----------------------------------------------------------------------------
(* Properties *)

Last(seq) == seq[Len(seq)]

\* the stored Order with an id (NoOrder when there is none)
StoredOrder(st, id) ==
    IF \E o \in st : o.id = id THEN CHOOSE o \in st : o.id = id ELSE NoOrder

\* the Fault Injector ended the request on this connection
ShortCircuited(slot) == slot.stages # <<>> /\ Last(slot.stages) = "chaos"

\* the request on this connection reached its route handler
Handled(slot) == slot.stages # <<>> /\ Last(slot.stages) = "handler"

Responded(c) == reqs[c].pc = "responded"

\* C1: when the lookup of a GET, PATCH or DELETE /orders/:id completes and no
\* Order with that id is stored (the id was never created, or was deleted), the
\* request is answered in that step, with 404 { error: 'Order not found' } unless
\* the store call failed (500), and the store is left as it was.
NotFoundIsAnswered404 ==
    [][\A c \in Clients :
          (/\ reqs[c].pc = "findByPk"
           /\ reqs[c].req.id \notin StoreIds(store)
           /\ reqs'[c] # reqs[c])
          => /\ reqs'[c].pc = "responded"
             /\ reqs'[c].status \in {404, 500}
             /\ reqs'[c].status = 500
                   => Last(reqs'[c].log).message = CatchLog(reqs[c].req)
             /\ reqs'[c].status = 404
                   => reqs'[c].kind = "error" /\ reqs'[c].error = "Order not found"
             /\ store' = store]_vars

\* C1 witness: a GET of an id that was created and then deleted is answered 404.
NotFoundAfterDelete ==
    \E c \in Clients :
        /\ Responded(c)
        /\ reqs[c].req.route = "get"
        /\ reqs[c].status = 404
        /\ sent201[reqs[c].req.id] = 1
        /\ sent204[reqs[c].req.id] = 1

\* C2: a PATCH answered 200 leaves every other Order as it was, keeps the Order's
\* id, keeps every attribute absent from the payload as it was stored, stores the
\* supplied value of every attribute in the payload, and returns the Order with
\* exactly those values.
PartialUpdateChangesOnlySuppliedFields ==
    [][\A c \in Clients :
          (/\ reqs[c].req.route = "update"
           /\ reqs[c].pc \in {"findByPk", "update"}
           /\ reqs'[c].pc = "responded"
           /\ reqs'[c].status = 200)
          => LET body == reqs[c].req.body
                 before == StoredOrder(store, reqs[c].req.id)
                 after == StoredOrder(store', reqs[c].req.id)
             IN /\ before # NoOrder
                /\ after.id = before.id
                /\ StoreIds(store') = StoreIds(store)
                /\ \A o \in store : o.id # before.id => o \in store'
                /\ reqs'[c].kind = "order"
                /\ reqs'[c].order.id = before.id
                /\ \A k \in OrderFields :
                      IF k \in DOMAIN body
                      THEN /\ after[k] = ColumnValue(k, body[k])
                           /\ reqs'[c].order[k] = body[k]
                      ELSE /\ after[k] = before[k]
                           /\ reqs'[c].order[k] = before[k]]_vars

\* C2 witness: PATCH { status: 'shipped' } of the Order created from OrderA is
\* answered 200 with status 'shipped' and the name, amount and items of OrderA.
ShippedOrderKeepsItsOtherFields ==
    \E c \in Clients :
        /\ Responded(c)
        /\ reqs[c].req.route = "update"
        /\ reqs[c].req.body = SetShipped
        /\ reqs[c].status = 200
        /\ reqs[c].order.status = Str(Shipped)
        /\ reqs[c].order.customerName = OrderA.customerName
        /\ reqs[c].order.totalAmount = OrderA.totalAmount
        /\ reqs[c].order.items = OrderA.items
        /\ RowOf(reqs[c].order) \in store

\* C3: a POST /orders that reaches its handler and whose store call succeeds is
\* answered 201 with an Order that has the supplied value of every supplied
\* attribute, status 'pending' when the payload has no status, and an id that no
\* other 201 response has carried, whether or not that Order still exists.
CreatedOrderHasFreshId ==
    /\ \A i \in Ids : sent201[i] <= 1
    /\ \A c \in Clients :
          (Responded(c) /\ reqs[c].req.route = "create" /\ Handled(reqs[c])
                /\ reqs[c].status # 500)
          => /\ reqs[c].status = 201
             /\ reqs[c].kind = "order"
             /\ reqs[c].order.id \in Ids
             /\ sent201[reqs[c].order.id] = 1
             /\ \A k \in DOMAIN reqs[c].req.body :
                   reqs[c].order[k] = reqs[c].req.body[k]
             /\ "status" \notin DOMAIN reqs[c].req.body
                   => reqs[c].order.status = Str(Pending)

\* C3 witness: after the first Order was deleted, a POST without status is
\* answered 201 with a new id and status 'pending'.
CreatedAfterDelete ==
    \E c \in Clients :
        /\ Responded(c)
        /\ reqs[c].req.route = "create"
        /\ reqs[c].req.body = OrderA
        /\ reqs[c].status = 201
        /\ reqs[c].order.status = Str(Pending)
        /\ \E i \in Ids : i < reqs[c].order.id /\ sent204[i] = 1

\* C4: for every id at most one DELETE is ever answered 204: of two DELETE
\* requests for the same id, whatever the interleaving of their findByPk and
\* destroy steps, the second is answered 404.
AtMostOneDeleteAnswered204 == \A i \in Ids : sent204[i] <= 1

\* C5: a PATCH whose payload has no fields and that the Fault Injector passes on
\* is answered by the validator, in the step that dispatches it, with 400 and
\* Joi's message; it never reaches the handler, issues no store call and leaves
\* the store as it was, whether or not its id is stored.
EmptyUpdateIsRejected ==
    [][\A c \in Clients :
          (/\ reqs'[c] # reqs[c]
           /\ reqs'[c].req.route = "update"
           /\ DOMAIN reqs'[c].req.body = {}
           /\ ~reqs'[c].req.malformed
           /\ ~ShortCircuited(reqs'[c]))
          => /\ reqs[c].pc = "idle"
             /\ reqs'[c].pc = "responded"
             /\ reqs'[c].status = 400
             /\ reqs'[c].kind = "error"
             /\ reqs'[c].error = "\"value\" must have at least 1 key"
             /\ reqs'[c].stages = <<"json", "chaos", "validate">>
             /\ reqs'[c].calls = <<>>
             /\ store' = store]_vars

\* C5 witness: an empty PATCH of an Order that is stored is answered 400.
EmptyUpdateOfStoredOrderRejected ==
    \E c \in Clients :
        /\ Responded(c)
        /\ reqs[c].req.route = "update"
        /\ reqs[c].req.body = NoFields
        /\ reqs[c].req.id \in StoreIds(store)
        /\ reqs[c].status = 400

\* C6: every stored Order has a totalAmount that is a number greater than 0, a
\* status among pending, shipped, delivered and cancelled, a customerName of at
\* least 3 characters, and an id no other stored Order has.
StoredOrdersAreValid ==
    \A o \in store :
        /\ o.totalAmount.t = "number" /\ o.totalAmount.n > 0
        /\ o.status.t = "string" /\ o.status.s \in OrderStatuses
        /\ o.customerName.t = "string" /\ Len(o.customerName.s) >= 3
        /\ \A other \in store : other.id = o.id => other = o

\* C6 witness: two Orders are stored, one of them created with a numeric string
\* as totalAmount and one of them updated.
TwoOrdersStored ==
    /\ Cardinality(store) = 2
    /\ \E o \in store : o.customerName = Str(Bob) /\ o.totalAmount = Num(7)
    /\ \E o \in store : o.customerName = Str(Janet) /\ o.status = Str(Shipped)

\* sub occurs in text as a substring
Occurs(sub, text) ==
    \E i \in 0..(Len(text) - Len(sub)) : SubSeq(text, i + 1, i + Len(sub)) = sub

\* C7: GET /orders answers with exactly the stored Orders whose status equals a
\* supplied status and in whose customerName a supplied customerName occurs as a
\* substring (both, when both are supplied; all Orders when none is).
ListReturnsExactlyTheMatches ==
    \A c \in Clients :
        (Responded(c) /\ reqs[c].req.route = "list" /\ reqs[c].status = 200)
        => reqs[c].orders =
             {o \in store :
                /\ "status" \in DOMAIN reqs[c].req.query
                      => o.status.s = reqs[c].req.query["status"]
                /\ "customerName" \in DOMAIN reqs[c].req.query
                      => Occurs(reqs[c].req.query["customerName"],
                                o.customerName.s)}

\* C8: a response of the Fault Injector is { error: <message> } with one of the
\* three pairs of status and message, and no other pair.
InjectedFaultIsCanned ==
    \A c \in Clients :
        (Responded(c) /\ ShortCircuited(reqs[c]))
        => /\ reqs[c].kind = "error"
           /\ <<reqs[c].status, reqs[c].error>> \in
                {<<503, "Service Unavailable: Database connection pool exhausted">>,
                 <<504, "Gateway Timeout: Upstream service did not respond">>,
                 <<500, "Internal Server Error: Transaction deadlock detected">>}

\* C8 witness: a request is short-circuited with 504.
ShortCircuitedWith504 ==
    \E c \in Clients :
        Responded(c) /\ ShortCircuited(reqs[c]) /\ reqs[c].status = 504

\* C9: the Fault Injector decides on every request before anything else can
\* answer it (a body that does not parse included); a request it ends ran no
\* validator and no handler and issued no store call, and a request it passes on
\* reaches the validator or handler (if its body parses).
InjectorDecidesFirst ==
    \A c \in Clients :
        reqs[c].pc # "idle"
        => /\ \E i \in 1..Len(reqs[c].stages) : reqs[c].stages[i] = "chaos"
           /\ ShortCircuited(reqs[c])
                 => /\ reqs[c].calls = <<>>
                    /\ \A i \in 1..Len(reqs[c].stages) :
                          reqs[c].stages[i] \notin {"validate", "handler"}
           /\ (~ShortCircuited(reqs[c]) /\ ~reqs[c].req.malformed)
                 => Last(reqs[c].stages) \in {"validate", "handler"}

\* C10: a response from a catch block (a store call failed) has status 500 and the
\* body { error: 'Internal Server Error' }, never the caught error's message, and
\* the handler issued each of its store calls once, the failed one last.
StoreFailureIsGeneric500 ==
    \A c \in Clients :
        /\ \A i, j \in 1..Len(reqs[c].calls) :
              reqs[c].calls[i] = reqs[c].calls[j] => i = j
        /\ (Responded(c) /\ Handled(reqs[c])
              /\ (reqs[c].status = 500
                    \/ Last(reqs[c].log).message = CatchLog(reqs[c].req)))
           => /\ reqs[c].status = 500
              /\ reqs[c].kind = "error"
              /\ reqs[c].error = "Internal Server Error"
              /\ reqs[c].error # StoreFailure
              /\ Last(reqs[c].log) = LogEvent("error", CatchLog(reqs[c].req), FALSE)
              /\ reqs[c].calls # <<>>

\* C10 witness: the UPDATE of a PATCH fails, after its lookup succeeded.
UpdateFailureAnswered500 ==
    \E c \in Clients :
        /\ Responded(c)
        /\ reqs[c].status = 500
        /\ reqs[c].calls = <<"findByPk", "update">>

\* the condition the create schema is described to put on a field
FieldOk(k, body) ==
    CASE k = "customerName" ->
            /\ k \in DOMAIN body
            /\ body[k].t = "string"
            /\ Len(body[k].s) >= 3
      [] k = "totalAmount" ->
            /\ k \in DOMAIN body
            /\ body[k].t = "number"
            /\ body[k].n > 0
      [] k = "status" ->
            k \in DOMAIN body
               => body[k].t = "string" /\ body[k].s \in OrderStatuses
      [] k = "items" ->
            k \in DOMAIN body
               => /\ body[k].t = "array"
                  /\ \A i \in 1..Len(body[k].e) : body[k].e[i].t = "object"

\* the messages that report a violated constraint of a field
ConstraintMessages(k) ==
    {Quoted(k) \o m :
        m \in {" is required", " must be a string", " is not allowed to be empty",
               " length must be at least 3 characters long", " must be a number",
               " must be a positive number", " must be an array",
               " must be one of [pending, shipped, delivered, cancelled]"}}
    \cup {"\"" \o k \o "[" \o Digits[i] \o "]\" must be of type object" :
            i \in 1..Len(Digits)}

\* C11: a POST /orders payload made of the four fields, which the Fault Injector
\* passes on, reaches the handler iff customerName is a string of length >= 3,
\* totalAmount is a number > 0, status (if present) is one of the four values and
\* items (if present) is an array of objects; otherwise it is answered 400 with
\* one message, that of the first field in declaration order whose condition is
\* violated, and no store call is issued.
CreateAcceptedIffFieldsValid ==
    \A c \in Clients :
        (/\ reqs[c].pc # "idle"
         /\ reqs[c].req.route = "create"
         /\ ~reqs[c].req.malformed
         /\ ~ShortCircuited(reqs[c])
         /\ DOMAIN reqs[c].req.body \subseteq OrderFields)
        => LET body == reqs[c].req.body
               violated == {i \in 1..Len(SchemaKeys) : ~FieldOk(SchemaKeys[i], body)}
               first == CHOOSE i \in violated : \A j \in violated : i <= j
           IN IF violated = {}
              THEN Handled(reqs[c])
              ELSE /\ Responded(c)
                   /\ Last(reqs[c].stages) = "validate"
                   /\ reqs[c].status = 400
                   /\ reqs[c].kind = "error"
                   /\ reqs[c].error \in ConstraintMessages(SchemaKeys[first])
                   /\ reqs[c].calls = <<>>

\* C12 as stated: the Fault Injector's response is preceded by one log event of
\* level warn, tagged simulated, that carries the chosen status, the request's
\* path and the request's method.
InjectedFaultLoggedAsWarning ==
    \A c \in Clients :
        (Responded(c) /\ ShortCircuited(reqs[c]))
        => /\ Len(reqs[c].log) = 1
           /\ reqs[c].effects = <<"log", "respond">>
           /\ reqs[c].log[1].level = "warn"
           /\ reqs[c].log[1].simulated
           /\ reqs[c].log[1].path = Path(reqs[c].req)
           /\ reqs[c].log[1].method = Method(reqs[c].req)
           /\ "status" \in DOMAIN reqs[c].log[1]
           /\ reqs[c].log[1].status = reqs[c].status

\* C12 as amended: the Fault Injector's response is preceded by one log event of
\* level error, tagged simulated, whose message is that of the chosen failure
\* (the message sent with the response's status) and that carries the request's
\* path and the request's method.
InjectedFaultLoggedAsError ==
    \A c \in Clients :
        (Responded(c) /\ ShortCircuited(reqs[c]))
        => /\ Len(reqs[c].log) = 1
           /\ reqs[c].effects = <<"log", "respond">>
           /\ reqs[c].log[1].level = "error"
           /\ reqs[c].log[1].simulated
           /\ reqs[c].log[1].path = Path(reqs[c].req)
           /\ reqs[c].log[1].method = Method(reqs[c].req)
           /\ reqs[c].log[1].message = reqs[c].error
           /\ <<reqs[c].status, reqs[c].log[1].message>> \in
                {<<503, "Service Unavailable: Database connection pool exhausted">>,
                 <<504, "Gateway Timeout: Upstream service did not respond">>,
                 <<500, "Internal Server Error: Transaction deadlock detected">>}

\* C12 witness: a DELETE of a stored Order is short-circuited with 503 and logged
\* with its path and method.
ShortCircuitedDeleteLogged ==
    \E c \in Clients :
        /\ Responded(c)
        /\ ShortCircuited(reqs[c])
        /\ reqs[c].status = 503
        /\ reqs[c].req.id \in StoreIds(store)
        /\ reqs[c].log[1].method = "DELETE"
        /\ reqs[c].log[1].path = "/orders/1"

\* C14: whenever the UPDATE of a PATCH or the DELETE of a DELETE request completes
\* without failing, an Order with the id it names is stored at that moment; and a
\* request answered 404 has issued no UPDATE and no DELETE.
MutatingCallFindsItsOrder ==
    [][\A c \in Clients :
          /\ (/\ reqs[c].pc \in {"update", "destroy"}
              /\ reqs'[c].pc = "responded"
              /\ reqs'[c].status # 500)
             => reqs[c].inst.id \in StoreIds(store)
          /\ (reqs'[c].pc = "responded" /\ reqs'[c].status = 404)
             => \A i \in 1..Len(reqs'[c].calls) :
                   reqs'[c].calls[i] \notin {"update", "destroy"}]_vars

\* an Order with the fields of a payload merged into it
Merged(row, body) ==
    [k \in DOMAIN row |-> IF k \in DOMAIN body THEN ColumnValue(k, body[k]) ELSE row[k]]

\* C15: when a PATCH is answered 200 while the response to another PATCH of the
\* same Order is still unread and the stored Order carries that other PATCH's
\* values, then, however the two handlers' findByPk and update steps were
\* interleaved, the stored Order afterwards is the one that results from applying
\* the two payloads one after the other, in one of the two orders; every other
\* Order is left as it was.
ConcurrentUpdatesAreSerial ==
    [][\A c, d \in Clients :
          (/\ c # d
           /\ reqs[c].pc = "responded"
           /\ reqs[c].req.route = "update"
           /\ reqs[c].status = 200
           /\ reqs[d].req.route = "update"
           /\ reqs[d].req.id = reqs[c].req.id
           /\ reqs[d].pc \in {"findByPk", "update"}
           /\ reqs'[d].pc = "responded"
           /\ reqs'[d].status = 200
           /\ StoredOrder(store, reqs[c].req.id)
                 = Merged(StoredOrder(store, reqs[c].req.id), reqs[c].req.body))
          => LET first == StoredOrder(store, reqs[c].req.id)
                 after == StoredOrder(store', reqs[c].req.id)
             IN /\ first # NoOrder
                /\ \/ after = Merged(first, reqs[d].req.body)
                   \/ after = Merged(Merged(first, reqs[d].req.body), reqs[c].req.body)
                /\ \A o \in store : o.id # first.id => o \in store'
                /\ StoreIds(store') = StoreIds(store)]_vars

\* C15 witness: PATCH { status } and PATCH { customerName, totalAmount } of one
\* Order each read the Order before the other wrote it (each response shows the
\* other's fields as they were), and the stored Order has the values of both.
OverlappingUpdatesBothStored ==
    \E c, d \in Clients :
        /\ Responded(c) /\ Responded(d)
        /\ reqs[c].req.route = "update" /\ reqs[c].req.body = SetShipped
        /\ reqs[d].req.route = "update" /\ reqs[d].req.body = Reprice
        /\ reqs[c].status = 200 /\ reqs[d].status = 200
        /\ reqs[c].order.customerName = Str(Janet)
        /\ reqs[d].order.status = Str(Pending)
        /\ \E o \in store :
              /\ o.id = reqs[c].req.id
              /\ o.status = Str(Shipped)
              /\ o.customerName = Str(Bob)
              /\ o.totalAmount = Num(7)

\* C16: every response with an error status (400 and above) is preceded by a log
\* event of that request, and the event logged last before it has level warn for
\* 400 and 404 and level error for 500, 503 and 504.
ErrorResponsesAreLoggedFirst ==
    \A c \in Clients :
        (Responded(c) /\ reqs[c].status >= 400)
        => /\ reqs[c].log # <<>>
           /\ Len(reqs[c].effects) >= 2
           /\ Last(reqs[c].effects) = "respond"
           /\ reqs[c].effects[Len(reqs[c].effects) - 1] = "log"
           /\ Last(reqs[c].log).level =
                 IF reqs[c].status \in {400, 404} THEN "warn" ELSE "error"

\* C17: a GET /orders with an empty-string parameter that reaches its handler and
\* whose store call succeeds is answered 200, and the empty parameter counts as a
\* filter that is present: the Orders returned are those whose status equals a
\* supplied status, the empty one included, and in whose customerName a supplied
\* customerName occurs, so that customerName="" returns what the request without
\* customerName returns.
EmptyFilterIsPresentFilter ==
    \A c \in Clients :
        (/\ Responded(c)
         /\ reqs[c].req.route = "list"
         /\ Handled(reqs[c])
         /\ reqs[c].status # 500
         /\ \E k \in DOMAIN reqs[c].req.query : reqs[c].req.query[k] = <<>>)
        => /\ reqs[c].status = 200
           /\ reqs[c].kind = "orders"
           /\ reqs[c].orders =
                {o \in store :
                   /\ "status" \in DOMAIN reqs[c].req.query
                         => o.status.s = reqs[c].req.query["status"]
                   /\ "customerName" \in DOMAIN reqs[c].req.query
                         => Occurs(reqs[c].req.query["customerName"],
                                   o.customerName.s)}

\* C18: a POST or PATCH payload with a field other than customerName,
\* totalAmount, status and items, which the Fault Injector passes on, is answered
\* 400 by the validator and issues no store call; and every stored Order has an
\* id that the store's counter issued and a 201 response reported, never one a
\* client supplied.
UnknownFieldsAreRejected ==
    /\ \A c \in Clients :
          (/\ reqs[c].pc # "idle"
           /\ reqs[c].req.route \in {"create", "update"}
           /\ ~reqs[c].req.malformed
           /\ ~ShortCircuited(reqs[c])
           /\ ~(DOMAIN reqs[c].req.body \subseteq OrderFields))
          => /\ Responded(c)
             /\ reqs[c].status = 400
             /\ reqs[c].kind = "error"
             /\ Last(reqs[c].stages) = "validate"
             /\ reqs[c].calls = <<>>
    /\ \A o \in store : o.id \in 1..(nextId - 1) /\ sent201[o.id] = 1

\* C18 witness: a PATCH of a stored Order with an id in its payload is answered
\* 400, and the Order is still stored under its own id.
UpdateWithIdRejected ==
    \E c \in Clients :
        /\ Responded(c)
        /\ reqs[c].req.route = "update"
        /\ reqs[c].req.body = WithId
        /\ reqs[c].req.id \in StoreIds(store)
        /\ reqs[c].status = 400
        /\ reqs[c].error = "\"id\" is not allowed"

\* C19: when a PATCH is answered 200 and its Order is stored at that moment, the
\* Order in the response body has, field by field, the values that are stored at
\* that moment.
UpdateResponseShowsStoredOrder ==
    [][\A c \in Clients :
          (/\ reqs[c].req.route = "update"
           /\ reqs[c].pc \in {"findByPk", "update"}
           /\ reqs'[c].pc = "responded"
           /\ reqs'[c].status = 200
           /\ reqs[c].req.id \in StoreIds(store'))
          => /\ reqs'[c].kind = "order"
             /\ reqs'[c].order.id = reqs[c].req.id
             /\ \A k \in OrderFields :
                   reqs'[c].order[k] = StoredOrder(store', reqs[c].req.id)[k]]_vars

\* how many responses have been sent on a connection for its request
ResponsesSent(slot) ==
    Cardinality({i \in 1..Len(slot.effects) : slot.effects[i] = "respond"})

\* C20: for a request to one of the five routes never more than one response is
\* sent, whichever of the Fault Injector, the body parser, the validator and the
\* handler (404, success, store failure) answers it; a request is marked answered
\* exactly when one response has been sent; and, every store call completing,
\* every request that has arrived is eventually answered.
EveryRequestAnsweredOnce ==
    /\ [](\A c \in Clients :
            /\ ResponsesSent(reqs[c]) <= 1
            /\ Responded(c) <=> ResponsesSent(reqs[c]) = 1)
    /\ \A c \in Clients :
          (reqs[c].pc # "idle") ~> (ResponsesSent(reqs[c]) = 1)

\* C20 witness: a DELETE of an id that was deleted before has been answered 404
\* after one store call, with one response.
NotFoundAnsweredOnce ==
    \E c \in Clients :
        /\ Responded(c)
        /\ reqs[c].req.route = "delete"
        /\ reqs[c].status = 404
        /\ sent204[reqs[c].req.id] = 1
        /\ reqs[c].calls = <<"findByPk">>
        /\ ResponsesSent(reqs[c]) = 1

====
